---- MODULE Spec2Model ----
(***************************************************************************)
(* Model of MemorySimulator (src/mem_sim.py): a TLB over a page table over *)
(* a fixed pool of frames, with LRU / SecondChance replacement.            *)
(*                                                                         *)
(* access_memory is modelled statement group by statement group: pc is the *)
(* position inside the call, depth the nesting of the recursive retry.     *)
(* An OrderedDict is a sequence of <<key, value>> pairs, oldest first.     *)
(***************************************************************************)
EXTENDS Integers, Sequences, FiniteSets

\* ---------------------------------------------------------------- bounds
MaxPage == 2
MaxCalls == 4
MaxTlbEntries == 2
MaxFrames == 2

\* Python's None, as a frame number, a page number or a frames[] slot.
None == -1

PageSizes == {2, 4096}
Policies == {"LRU", "SecondChance"}
Pages == 0..MaxPage
\* The first and the last address of every page.
Addresses(ps) ==
    IF ps > 0 THEN {p * ps + o : p \in Pages, o \in {0, ps - 1}} ELSE Pages

\* The attributes __init__ sets before it checks the policy, and all of them.
AttrsBeforePolicyCheck ==
    {"debug", "page_size", "num_tlb_entries", "num_frames", "rep_policy"}
AllAttrs ==
    AttrsBeforePolicyCheck \cup
        {"tlb", "page_table", "frames", "tlb_hits", "tlb_misses", "page_faults"}

\* Nothing printed.
NoReport == [lines |-> <<>>, error |-> "none"]

VARIABLES
    page_size, num_tlb_entries, num_frames, rep_policy,   \* configuration
    attrs,                                                \* attributes set on self
    report,                                               \* print_statistics output
    tlb, page_table, frames,                              \* structures
    tlb_hits, tlb_misses, page_faults,                    \* counters
    pc, depth, site,                                      \* position in the call
    virtual_address, page_number, frame_number, tlb_arg,  \* parameters and locals
    victim_page, err,
    trace, prev_address, snap, evicted                    \* history

config == <<page_size, num_tlb_entries, num_frames, rep_policy>>
counters == <<tlb_hits, tlb_misses, page_faults>>
history == <<trace, prev_address, snap, evicted>>
vars == <<config, attrs, report, tlb, page_table, frames, counters, pc, depth, site,
          virtual_address, page_number, frame_number, tlb_arg,
          victim_page, err, history>>

\* ------------------------------------------------- collections.OrderedDict
Keys(d) == {d[i][1] : i \in DOMAIN d}

Has(d, k) == k \in Keys(d)

Get(d, k) == d[CHOOSE i \in DOMAIN d : d[i][1] = k][2]

Without(d, k) == SelectSeq(d, LAMBDA e : e[1] # k)

\* A move_to_end that leaves the order as it is.
MoveToEndKeepsOrder(d, k) == d

\* A move_to_end with last=False: the entry goes to the oldest end.
MoveToFront(d, k) == <<(<<k, Get(d, k)>>)>> \o Without(d, k)

\* d.move_to_end(k), k present
MoveToEnd(d, k) == Append(Without(d, k), <<k, Get(d, k)>>)

\* An assignment that updates a present key and drops a new one.
SetItemDropsNewKey(d, k, v) ==
    IF Has(d, k)
    THEN [i \in DOMAIN d |-> IF d[i][1] = k THEN <<k, v>> ELSE d[i]]
    ELSE d

\* d[k] = v : in place when k is present, appended otherwise
SetItem(d, k, v) ==
    IF Has(d, k)
    THEN [i \in DOMAIN d |-> IF d[i][1] = k THEN <<k, v>> ELSE d[i]]
    ELSE Append(d, <<k, v>>)

\* ------------------------------------------------------------- __init__
Init ==
    /\ page_size \in PageSizes
    /\ num_tlb_entries \in 1..MaxTlbEntries
    /\ num_frames \in 1..MaxFrames
    /\ rep_policy \in Policies
    /\ attrs = AllAttrs
    /\ report = NoReport
    /\ tlb = <<>>
    /\ page_table = <<>>
    /\ frames = [i \in 0..(num_frames - 1) |-> None]
    /\ tlb_hits = 0
    /\ tlb_misses = 0
    /\ page_faults = 0
    /\ pc = "idle"
    /\ depth = 0
    /\ site = "none"
    /\ virtual_address = None
    /\ page_number = None
    /\ frame_number = None
    /\ tlb_arg = None
    /\ victim_page = None
    /\ err = "none"
    /\ trace = <<>>
    /\ prev_address = None
    /\ snap = [tlb_hits |-> 0, tlb_misses |-> 0, page_faults |-> 0,
               tlb |-> <<>>, page_table |-> <<>>, frames |-> frames]
    /\ evicted = {}

\* No simulator yet: the state before MemorySimulator(...) is evaluated.
InitNew ==
    /\ page_size = None
    /\ num_tlb_entries = None
    /\ num_frames = None
    /\ rep_policy = "unset"
    /\ attrs = {}
    /\ report = NoReport
    /\ tlb = <<>>
    /\ page_table = <<>>
    /\ frames = <<>>
    /\ tlb_hits = 0
    /\ tlb_misses = 0
    /\ page_faults = 0
    /\ pc = "new"
    /\ depth = 0
    /\ site = "none"
    /\ virtual_address = None
    /\ page_number = None
    /\ frame_number = None
    /\ tlb_arg = None
    /\ victim_page = None
    /\ err = "none"
    /\ trace = <<>>
    /\ prev_address = None
    /\ snap = [tlb_hits |-> 0, tlb_misses |-> 0, page_faults |-> 0,
               tlb |-> <<>>, page_table |-> <<>>, frames |-> <<>>]
    /\ evicted = {}

\* A policy check that lets every name through.
AnyPolicyValid(pol) == TRUE

\* Negation of `if rep_policy not in ['LRU', 'SecondChance']`.
ValidPolicy(pol) == pol \in Policies

\* MemorySimulator(page_size, num_tlb_entries, num_frames, rep_policy): the
\* four parameters are stored, then the policy is checked (ValueError), then
\* the structures and the counters are created.  No other parameter is
\* checked; [None] * n is the empty list for n <= 0.
Construct(ps, nt, nf, pol) ==
    /\ pc = "new"
    /\ page_size' = ps
    /\ num_tlb_entries' = nt
    /\ num_frames' = nf
    /\ rep_policy' = pol
    /\ IF ValidPolicy(pol)
       THEN /\ attrs' = AllAttrs
            /\ frames' = [i \in 0..(nf - 1) |-> None]
            /\ snap' = [snap EXCEPT !.frames = [i \in 0..(nf - 1) |-> None]]
            /\ err' = "none"
            /\ pc' = "idle"
       ELSE /\ attrs' = AttrsBeforePolicyCheck
            /\ err' = "ValueError"
            /\ pc' = "failed"
            /\ UNCHANGED <<frames, snap>>
    /\ UNCHANGED <<report, tlb, page_table, counters, depth, site,
                   virtual_address, page_number, frame_number, tlb_arg,
                   victim_page, trace, prev_address, evicted>>

\* -------------------------------------------------------- access_memory
\* The offset taken for the page number.
PageNumberIsOffset(a) == a % page_size

\* page_number = virtual_address // self.page_size
PageNumber(a) == a \div page_size

\* A top-level call; the division raises ZeroDivisionError for page_size 0.
AccessMemory(a) ==
    /\ pc = "idle"
    /\ Len(trace) < MaxCalls
    /\ virtual_address' = a
    /\ IF page_size = 0
       THEN /\ page_number' = None
            /\ err' = "ZeroDivisionError"
            /\ pc' = "idle"
       ELSE /\ page_number' = PageNumber(a)
            /\ err' = "none"
            /\ pc' = "tlb_lookup"
    /\ depth' = 0
    /\ site' = "none"
    /\ frame_number' = None
    /\ tlb_arg' = None
    /\ victim_page' = None
    /\ trace' = Append(trace, IF page_size = 0 THEN None ELSE a \div page_size)
    /\ prev_address' = virtual_address
    /\ snap' = [tlb_hits |-> tlb_hits, tlb_misses |-> tlb_misses,
                page_faults |-> page_faults, tlb |-> tlb,
                page_table |-> page_table, frames |-> frames]
    /\ report' = NoReport
    /\ UNCHANGED <<config, attrs, tlb, page_table, frames, counters, evicted>>

\* if page_number in self.tlb: count the hit, refresh both orders, return.
\* move_to_end raises KeyError for a key the page table does not hold.
TlbHit ==
    /\ pc = "tlb_lookup"
    /\ Has(tlb, page_number)
    /\ tlb_hits' = tlb_hits + 1
    /\ tlb' = MoveToEnd(tlb, page_number)
    /\ IF Has(page_table, page_number)
       THEN /\ page_table' = MoveToEnd(page_table, page_number)
            /\ err' = err
       ELSE /\ page_table' = page_table
            /\ err' = "KeyError"
    /\ pc' = "idle"
    /\ UNCHANGED <<config, attrs, report, frames, tlb_misses, page_faults, depth, site,
                   virtual_address, page_number, frame_number, tlb_arg,
                   victim_page, history>>

TlbMiss ==
    /\ pc = "tlb_lookup"
    /\ ~Has(tlb, page_number)
    /\ tlb_misses' = tlb_misses + 1
    /\ pc' = "pt_lookup"
    /\ UNCHANGED <<config, attrs, report, tlb, page_table, frames, tlb_hits, page_faults,
                   depth, site, virtual_address, page_number, frame_number,
                   tlb_arg, victim_page, err, history>>

\* if page_number in self.page_table: refresh its order, then _update_tlb.
PageTableHit ==
    /\ pc = "pt_lookup"
    /\ Has(page_table, page_number)
    /\ frame_number' = Get(page_table, page_number)
    /\ tlb_arg' = Get(page_table, page_number)
    /\ page_table' = MoveToEnd(page_table, page_number)
    /\ site' = "pt_hit"
    /\ pc' = "tlb_evict"
    /\ UNCHANGED <<config, attrs, report, tlb, frames, counters, depth, virtual_address,
                   page_number, victim_page, err, history>>

\* self.page_faults += 1, then _handle_page_fault is entered.
PageFault ==
    /\ pc = "pt_lookup"
    /\ ~Has(page_table, page_number)
    /\ page_faults' = page_faults + 1
    /\ evicted' = evicted \ {page_number}
    /\ pc' = "allocate"
    /\ UNCHANGED <<config, attrs, report, tlb, page_table, frames, tlb_hits, tlb_misses,
                   depth, site, virtual_address, page_number, frame_number,
                   tlb_arg, victim_page, err, trace, prev_address, snap>>

\* ------------------------------------------------------ _allocate_frame
FreeFrames(f) == {i \in DOMAIN f : f[i] = None}

\* The first frame of the pool, free or not, while any frame is free.
AllocateFrameFirstIndex(f) == IF FreeFrames(f) = {} THEN None ELSE 0

\* The lowest free frame, None when every frame is occupied.
AllocateFrameResult(f) ==
    IF FreeFrames(f) = {} THEN None
    ELSE CHOOSE i \in FreeFrames(f) : \A j \in FreeFrames(f) : i <= j

\* frame_number = self._allocate_frame()
AllocateFrame ==
    /\ pc = "allocate"
    /\ frame_number' = AllocateFrameResult(frames)
    /\ pc' = IF AllocateFrameResult(frames) = None THEN "find_victim" ELSE "install"
    /\ UNCHANGED <<config, attrs, report, tlb, page_table, frames, counters, depth, site,
                   virtual_address, page_number, tlb_arg, victim_page, err,
                   history>>

\* ----------------------------------------------------- _find_victim_lru
\* An eviction that leaves the victim in the TLB.
TlbKeepsVictim(t, victim) == t

\* The TLB after `if victim_page in self.tlb: del self.tlb[victim_page]`.
TlbAfterEviction(t, victim) == Without(t, victim)

\* popitem(last=False) on the page table; KeyError when it is empty.
FindVictimLru ==
    /\ pc = "find_victim"
    /\ rep_policy = "LRU"
    /\ IF page_table = <<>>
       THEN /\ err' = "KeyError"
            /\ pc' = "idle"
            /\ UNCHANGED <<tlb, page_table, frame_number, victim_page, evicted>>
       ELSE /\ victim_page' = Head(page_table)[1]
            /\ frame_number' = Head(page_table)[2]
            /\ page_table' = Tail(page_table)
            /\ tlb' = TlbAfterEviction(tlb, Head(page_table)[1])
            /\ evicted' = evicted \cup {Head(page_table)[1]}
            /\ err' = err
            /\ pc' = "install"
    /\ UNCHANGED <<config, attrs, report, frames, counters, depth, site, virtual_address,
                   page_number, tlb_arg, trace, prev_address, snap>>

\* --------------------------------------------- _find_victim_second_chance
\* A half-written policy: the oldest page-table entry is popped, nothing is
\* returned.
FindVictimSecondChancePops ==
    /\ pc = "find_victim"
    /\ rep_policy = "SecondChance"
    /\ page_table' = Tail(page_table)
    /\ frame_number' = None
    /\ pc' = "install"
    /\ UNCHANGED <<config, attrs, report, tlb, frames, counters, depth, site,
                   virtual_address, page_number, tlb_arg, victim_page, err,
                   history>>

\* The body is `pass`: the call returns None and changes nothing.
FindVictimSecondChance ==
    /\ pc = "find_victim"
    /\ rep_policy = "SecondChance"
    /\ frame_number' = None
    /\ pc' = "install"
    /\ UNCHANGED <<config, attrs, report, tlb, page_table, frames, counters, depth, site,
                   virtual_address, page_number, tlb_arg, victim_page, err,
                   history>>

\* ---------------------------------------------------- _handle_page_fault
\* self.frames[frame_number] = page_number; self.page_table[page_number] =
\* frame_number; then _update_tlb.  Indexing the list with None raises
\* TypeError before anything is written, and the exception leaves the call.
InstallPage ==
    /\ pc = "install"
    /\ IF frame_number = None
       THEN /\ err' = "TypeError"
            /\ pc' = "idle"
            /\ UNCHANGED <<frames, page_table, tlb_arg, site>>
       ELSE /\ frames' = [frames EXCEPT ![frame_number] = page_number]
            /\ page_table' = SetItem(page_table, page_number, frame_number)
            /\ tlb_arg' = frame_number
            /\ site' = "handler"
            /\ err' = err
            /\ pc' = "tlb_evict"
    /\ UNCHANGED <<config, attrs, report, tlb, counters, depth, virtual_address, page_number,
                   frame_number, victim_page, history>>

\* _handle_page_fault has no return statement: its caller receives None.
HandlePageFaultResult(fn) == None

\* ----------------------------------------------------------- _update_tlb
\* An eviction test that lets the TLB grow one entry past its capacity.
TlbEvictWhenOverfull(t) == Len(t) > num_tlb_entries

\* if len(self.tlb) >= self.num_tlb_entries: self.tlb.popitem(last=False)
TlbEvictNeeded(t) == Len(t) >= num_tlb_entries

UpdateTlbEvict ==
    /\ pc = "tlb_evict"
    /\ IF TlbEvictNeeded(tlb)
       THEN IF tlb = <<>>
            THEN /\ err' = "KeyError"
                 /\ pc' = "idle"
                 /\ tlb' = tlb
            ELSE /\ tlb' = Tail(tlb)
                 /\ err' = err
                 /\ pc' = "tlb_insert"
       ELSE /\ tlb' = tlb
            /\ err' = err
            /\ pc' = "tlb_insert"
    /\ UNCHANGED <<config, attrs, report, page_table, frames, counters, depth, site,
                   virtual_address, page_number, frame_number, tlb_arg,
                   victim_page, history>>

\* self.tlb[page_number] = frame_number, and the return to the call site:
\* after the page-table hit access_memory returns; after the handler's own
\* update access_memory calls _update_tlb again with the handler's result;
\* after that one it retries the access.
UpdateTlbInsert ==
    /\ pc = "tlb_insert"
    /\ tlb' = SetItem(tlb, page_number, tlb_arg)
    /\ \/ /\ site = "pt_hit"
          /\ pc' = "idle"
          /\ UNCHANGED <<site, tlb_arg>>
       \/ /\ site = "handler"
          /\ site' = "after_fault"
          /\ tlb_arg' = HandlePageFaultResult(frame_number)
          /\ pc' = "tlb_evict"
       \/ /\ site = "after_fault"
          /\ pc' = "retry"
          /\ UNCHANGED <<site, tlb_arg>>
    /\ UNCHANGED <<config, attrs, report, page_table, frames, counters, depth,
                   virtual_address, page_number, frame_number, victim_page,
                   err, history>>

\* self.access_memory(virtual_address): the nested call starts at the TLB.
RetryAccess ==
    /\ pc = "retry"
    /\ depth' = depth + 1
    /\ page_number' = PageNumber(virtual_address)
    /\ pc' = "tlb_lookup"
    /\ UNCHANGED <<config, attrs, report, tlb, page_table, frames, counters, site,
                   virtual_address, frame_number, tlb_arg, victim_page, err,
                   history>>

\* ------------------------------------------------------ print_statistics
\* The print calls in order, each with the attribute of self it reads.
ReportLines ==
    << [label |-> "rule", attr |-> "none"],
       [label |-> "title", attr |-> "none"],
       [label |-> "rule", attr |-> "none"],
       [label |-> "policy", attr |-> "replacement_policy"],
       [label |-> "page_size", attr |-> "page_size"],
       [label |-> "tlb_entries", attr |-> "num_tlb_entries"],
       [label |-> "frames", attr |-> "num_frames"],
       [label |-> "rule", attr |-> "none"],
       [label |-> "tlb_hits", attr |-> "tlb_hits"],
       [label |-> "tlb_misses", attr |-> "tlb_misses"],
       [label |-> "page_faults", attr |-> "page_faults"],
       [label |-> "rule", attr |-> "none"] >>

\* The lines whose attribute self does not have.
Unreadable(a) ==
    {i \in DOMAIN ReportLines : ReportLines[i].attr \notin (a \cup {"none"})}

\* Reading a missing attribute raises AttributeError: the lines before it are
\* printed, the rest are not.
Printed(a) ==
    IF Unreadable(a) = {}
    THEN [lines |-> [i \in DOMAIN ReportLines |-> ReportLines[i].label],
          error |-> "none"]
    ELSE LET bad == CHOOSE i \in Unreadable(a) : \A j \in Unreadable(a) : i <= j
         IN [lines |-> [i \in 1..(bad - 1) |-> ReportLines[i].label],
             error |-> "AttributeError"]

PrintStatistics ==
    /\ pc = "idle"
    /\ report' = Printed(attrs)
    /\ UNCHANGED <<config, attrs, tlb, page_table, frames, counters, pc, depth,
                   site, virtual_address, page_number, frame_number, tlb_arg,
                   victim_page, err, history>>

Next ==
    \/ \E a \in Addresses(page_size) : AccessMemory(a)
    \/ TlbHit
    \/ TlbMiss
    \/ PageTableHit
    \/ PageFault
    \/ AllocateFrame
    \/ FindVictimLru
    \/ FindVictimSecondChance
    \/ InstallPage
    \/ UpdateTlbEvict
    \/ UpdateTlbInsert
    \/ RetryAccess
    \/ PrintStatistics

Spec == Init /\ [][Next]_vars

\* The statements of a call in progress: the program is sequential, a call
\* that has started runs until it returns or raises.
CallSteps ==
    \/ TlbHit
    \/ TlbMiss
    \/ PageTableHit
    \/ PageFault
    \/ AllocateFrame
    \/ FindVictimLru
    \/ FindVictimSecondChance
    \/ InstallPage
    \/ UpdateTlbEvict
    \/ UpdateTlbInsert
    \/ RetryAccess

SpecFair == Spec /\ WF_vars(CallSteps)

\* Construction included, with parameters the constructor does not refuse.
ConfigPageSizes == PageSizes \cup {0}
ConfigCounts(max) == (0 - 1)..max
ConfigPolicies == Policies \cup {"FIFO"}

NextNew ==
    \/ \E ps \in ConfigPageSizes, nt \in ConfigCounts(MaxTlbEntries),
          nf \in ConfigCounts(MaxFrames), pol \in ConfigPolicies :
            Construct(ps, nt, nf, pol)
    \/ Next

SpecNew == InitNew /\ [][NextNew]_vars

\* ======================================================== properties
\* A top-level call has returned (or raised) and no call is in progress.
Completed == pc = "idle" /\ trace # <<>>

\* What the last top-level call added to each counter.
HitsAdded == tlb_hits - snap.tlb_hits
MissesAdded == tlb_misses - snap.tlb_misses
FaultsAdded == page_faults - snap.page_faults

\* C1: between calls, every page of the TLB is a page of the page table and
\* the two hold the same frame for it.
C1_TlbWithinPageTable ==
    pc = "idle" =>
        \A i \in DOMAIN tlb :
            /\ Has(page_table, tlb[i][1])
            /\ Get(page_table, tlb[i][1]) = tlb[i][2]

\* C2: a top-level call adds one to exactly one of tlb_hits / tlb_misses, so
\* the two sum to the number of calls, and it adds to page_faults only when
\* it added to tlb_misses and not to tlb_hits.
C2_OneLookupCountPerCall ==
    Completed =>
        /\ tlb_hits + tlb_misses = Len(trace)
        /\ <<HitsAdded, MissesAdded>> \in {<<1, 0>>, <<0, 1>>}
        /\ FaultsAdded \in {0, 1}
        /\ FaultsAdded = 1 => (MissesAdded = 1 /\ HitsAdded = 0)

\* The end-to-end scenario: page_size 4096, one TLB entry, two frames, LRU,
\* pages 0, 1, 0, 2 accessed from a fresh simulator.
ScenarioDone ==
    /\ page_size = 4096
    /\ num_tlb_entries = 1
    /\ num_frames = 2
    /\ rep_policy = "LRU"
    /\ pc = "idle"
    /\ trace = <<0, 1, 0, 2>>

C4_ImmediateReaccessHits ==
    (Completed /\ Len(trace) >= 2 /\ virtual_address = prev_address) =>
        (HitsAdded = 1 /\ MissesAdded = 0 /\ FaultsAdded = 0)

\* The position of the last access to page p in the accesses tr (0: none).
LastAccess(tr, p) ==
    IF \E i \in DOMAIN tr : tr[i] = p
    THEN CHOOSE i \in DOMAIN tr : tr[i] = p /\ \A j \in DOMAIN tr : tr[j] = p => j <= i
    ELSE 0

FirstAccess(tr, p) ==
    CHOOSE i \in DOMAIN tr : tr[i] = p /\ \A j \in DOMAIN tr : tr[j] = p => i <= j

\* The accesses made before the call in progress.
Earlier == SubSeq(trace, 1, Len(trace) - 1)

\* C5: with LRU, between calls the page table lists the resident pages in the
\* order of their last resolution, and the page a fault removes when every
\* frame is occupied is the resident page whose last resolution is the oldest.
C5_LruOrderIsResolutionOrder ==
    rep_policy = "LRU" =>
        /\ pc = "idle" =>
              \A i, j \in DOMAIN page_table :
                  i < j => LastAccess(trace, page_table[i][1])
                              < LastAccess(trace, page_table[j][1])
        /\ (pc = "install" /\ victim_page # None) =>
              /\ LastAccess(Earlier, victim_page) > 0
              /\ \A q \in Keys(page_table) :
                    LastAccess(Earlier, victim_page) < LastAccess(Earlier, q)

\* An LRU eviction whose victim is not the page that was installed first.
C5_Witness ==
    /\ rep_policy = "LRU"
    /\ pc = "install"
    /\ victim_page # None
    /\ \E q \in Keys(page_table) :
          FirstAccess(Earlier, q) < FirstAccess(Earlier, victim_page)

\* C6: no call ends in an error, and when it ends the accessed page is in the
\* page table and in the TLB.
C6_NoAccessFails ==
    Completed =>
        /\ err = "none"
        /\ Has(page_table, page_number)
        /\ Has(tlb, page_number)

\* C7: with SecondChance, a fault taken with every frame occupied selects a
\* victim: when the handler comes to install the page, a resident page has been
\* removed from the page table and its frame is the one to reuse.
C7_SecondChanceSelectsVictim ==
    (rep_policy = "SecondChance" /\ pc = "install" /\ FreeFrames(frames) = {}) =>
        /\ frame_number \in DOMAIN frames
        /\ victim_page # None
        /\ ~Has(page_table, victim_page)

\* C8: in every state, inside a call or between calls, the TLB holds at most
\* num_tlb_entries entries and the page table at most num_frames.
C8_CapacityBound ==
    /\ Len(tlb) <= num_tlb_entries
    /\ Len(page_table) <= num_frames

\* Both structures full inside a fault that evicted a page, right after the
\* handler put the page in a TLB of two entries or more.
C8_Witness ==
    /\ pc = "tlb_evict"
    /\ site = "after_fault"
    /\ victim_page # None
    /\ num_tlb_entries >= 2
    /\ Len(tlb) = num_tlb_entries
    /\ Len(page_table) = num_frames

\* C9: between calls, frames[f] = p exactly when page_table[p] = f.
C9_FramesMirrorPageTable ==
    pc = "idle" =>
        \A f \in DOMAIN frames :
            \A p \in (Keys(page_table) \cup {frames[g] : g \in DOMAIN frames}) \ {None} :
                (frames[f] = p) <=> (Has(page_table, p) /\ Get(page_table, p) = f)

\* Every frame occupied, after a call that evicted a page.
C9_Witness ==
    /\ Completed
    /\ victim_page # None
    /\ num_frames >= 2
    /\ FreeFrames(frames) = {}

\* C10: a step that removes a page from the page table leaves it out of the
\* TLB, and a TLB hit never happens on a page that was evicted and has not
\* faulted since.
C10_EvictionClearsTlb ==
    [][ /\ \A p \in Keys(page_table) \ Keys(page_table') : ~Has(tlb', p)
        /\ tlb_hits' > tlb_hits => page_number \notin evicted ]_vars

\* An eviction that took the victim out of the TLB as well.
C10_Witness ==
    /\ pc = "install"
    /\ victim_page # None
    /\ Len(tlb) < Len(snap.tlb)

\* C11: a simulator that exists has a positive page_size, num_tlb_entries and
\* num_frames (construction with any other value fails), and no access_memory
\* call fails because of such a parameter.
C11_NonPositiveConfigRejected ==
    pc \notin {"new", "failed"} =>
        /\ page_size > 0
        /\ num_tlb_entries > 0
        /\ num_frames > 0
        /\ err \notin {"ZeroDivisionError", "KeyError"}

\* The attributes created after the policy check.
CreatedAfterCheck ==
    {"tlb", "page_table", "frames", "tlb_hits", "tlb_misses", "page_faults"}

\* C12: a policy other than LRU and SecondChance makes construction fail with
\* ValueError before the TLB, the page table, the frames or the counters are
\* created; with LRU or SecondChance construction yields an empty TLB, an
\* empty page table, num_frames free frames and three counters at zero.
C12_PolicyCheckedFirst ==
    /\ pc = "failed" =>
          /\ err = "ValueError"
          /\ attrs \cap CreatedAfterCheck = {}
    /\ (pc # "new" /\ rep_policy \notin {"LRU", "SecondChance"}) => pc = "failed"
    /\ (pc # "new" /\ rep_policy \in {"LRU", "SecondChance"}) => pc # "failed"
    /\ (pc = "idle" /\ trace = <<>>) =>
          /\ CreatedAfterCheck \subseteq attrs
          /\ tlb = <<>>
          /\ page_table = <<>>
          /\ DOMAIN frames = 0..(num_frames - 1)
          /\ \A f \in DOMAIN frames : frames[f] = None
          /\ tlb_hits = 0 /\ tlb_misses = 0 /\ page_faults = 0

\* A construction refused for its policy.
C12_Witness == pc = "failed" /\ rep_policy = "FIFO"

\* The report without its rules and its title.
ReportFields(r) == SelectSeq(r.lines, LAMBDA l : l \notin {"rule", "title"})

\* C13: print_statistics ends without error having printed, in this order,
\* the policy, the page size, the TLB entry count, the frame count, tlb_hits,
\* tlb_misses and page_faults.
C13_PrintStatisticsReports ==
    report # NoReport =>
        /\ report.error = "none"
        /\ ReportFields(report) =
              <<"policy", "page_size", "tlb_entries", "frames",
                "tlb_hits", "tlb_misses", "page_faults">>

\* C15: _update_tlb removes an entry only when the page it inserts is not in
\* the TLB and the TLB is at capacity; a call that faulted with a full TLB of
\* two entries or more ends with the TLB still full.
C15_TlbEvictsOnlyForNewPage ==
    [][ /\ (pc = "tlb_evict" /\ Len(tlb') < Len(tlb)) =>
              (~Has(tlb, page_number) /\ Len(tlb) >= num_tlb_entries)
        /\ (pc # "idle" /\ pc' = "idle" /\ err' = "none"
              /\ page_faults' > snap.page_faults
              /\ num_tlb_entries >= 2 /\ Len(snap.tlb) = num_tlb_entries) =>
              Len(tlb') = num_tlb_entries ]_vars

\* C16: a faulting call is one pass: the TLB is looked up once per call (never
\* in a nested call) and _update_tlb is not called a second time after the
\* handler has put the page in the TLB.
C16_SingleLinearPass ==
    /\ pc = "tlb_lookup" => depth = 0
    /\ site # "after_fault"

\* The last top-level call took the TLB-hit branch.
TopLevelHit == Completed /\ HitsAdded = 1 /\ MissesAdded = 0

Entries(d) == {d[i] : i \in DOMAIN d}

\* C17: a call that takes the TLB-hit branch adds one to tlb_hits and moves the
\* accessed page to the most recent end of the TLB and of the page table; the
\* entries of both with their frames, the order of the other entries, the
\* frames, tlb_misses and page_faults are as before the call.
C17_HitTouchesOnlyOrder ==
    TopLevelHit =>
        /\ Entries(tlb) = Entries(snap.tlb) /\ Len(tlb) = Len(snap.tlb)
        /\ Entries(page_table) = Entries(snap.page_table)
        /\ Len(page_table) = Len(snap.page_table)
        /\ Without(tlb, page_number) = Without(snap.tlb, page_number)
        /\ Without(page_table, page_number) = Without(snap.page_table, page_number)
        /\ tlb[Len(tlb)][1] = page_number
        /\ page_table[Len(page_table)][1] = page_number
        /\ frames = snap.frames
        /\ FaultsAdded = 0

\* A hit that changed the order of both structures.
C17_Witness ==
    /\ TopLevelHit
    /\ tlb # snap.tlb
    /\ page_table # snap.page_table

\* The pages the last call removed from the page table.
PagesRemoved == Keys(snap.page_table) \ Keys(page_table)

\* C18: a call removes a page from the page table only when it faulted with
\* every frame occupied, and then it removes exactly one; a call that faulted
\* with a free frame removes none and installs its page in the lowest free
\* frame.
C18_RemovalOnlyByEviction ==
    Completed =>
        /\ PagesRemoved # {} =>
              (FaultsAdded = 1 /\ FreeFrames(snap.frames) = {})
        /\ (FaultsAdded = 1 /\ FreeFrames(snap.frames) = {}) =>
              Cardinality(PagesRemoved) = 1
        /\ (FaultsAdded = 1 /\ FreeFrames(snap.frames) # {}) =>
              /\ PagesRemoved = {}
              /\ Has(page_table, page_number)
              /\ Get(page_table, page_number) \in FreeFrames(snap.frames)
              /\ \A f \in FreeFrames(snap.frames) : Get(page_table, page_number) <= f
              /\ frames[Get(page_table, page_number)] = page_number

\* C19: with LRU every call that has started ends; the call nests at most one
\* level deep, the nested lookup finds the page in the TLB, and a call takes
\* at most one page fault.
C19_LruCallTerminates ==
    /\ [](rep_policy = "LRU" =>
            /\ depth <= 1
            /\ FaultsAdded <= 1
            /\ (depth = 1 /\ pc = "tlb_lookup") => Has(tlb, page_number)
            /\ depth = 1 => pc \in {"tlb_lookup", "idle"})
    /\ (rep_policy = "LRU" /\ pc # "idle") ~> (pc = "idle")

\* An LRU call that faulted, evicted a page and returned from its retry.
C19_Witness ==
    /\ rep_policy = "LRU"
    /\ pc = "idle"
    /\ depth = 1
    /\ victim_page # None
    /\ err = "none"

\* I1 (TLB within the page table, same frame), read on a TLB and a page table.
I1(t, pt) == \A i \in DOMAIN t : Has(pt, t[i][1]) /\ Get(pt, t[i][1]) = t[i][2]

\* I3 (frames and page table mirror each other), read on both.
I3(fr, pt) ==
    \A f \in DOMAIN fr :
        \A p \in (Keys(pt) \cup {fr[g] : g \in DOMAIN fr}) \ {None} :
            (fr[f] = p) <=> (Has(pt, p) /\ Get(pt, p) = f)

====
